---- MODULE Spec2Model ----
(***************************************************************************)
(* A model of package unsafer (unsafer.go): the mirrored runtime layouts   *)
(* (AnyInternal, TypeInternal, StringInternal, SliceInternal) and the raw  *)
(* memory operators GetTypePointer, GetKind, Spoof, Invent, ByteString and *)
(* NoEscape.  Addresses are natural numbers, 0 is nil.                     *)
(***************************************************************************)
EXTENDS Integers, Sequences, FiniteSets, TLC

\* ------------------------------------------------------------------ bounds
\* payload addresses 1..NumData
NumData == 2
\* distinct named types sharing one kind byte
NamesPerKind == 2
\* types the caller of Spoof/Invent boxes values of
MaxDynTypes == 3
\* width of a pointer word in the NoEscape model
PtrBits == 7
\* repeated GetKind calls on one value
MaxCalls == 2
\* byte buffers the allocator hands out
MaxBufs == 2
\* largest capacity of a byte buffer
MaxCap == 2
\* byte values 0..MaxByte
MaxByte == 1

\* ------------------------------------------------------- program constants
KindBool == 1
KindUnsafePointer == 26
KindDirectIface == 32
KindGCProg == 64
KindMask == 31
KindBits == 8

\* ------------------------------------------------------------ bit operators
RECURSIVE BitAnd(_, _, _)
BitAnd(x, y, n) ==
    IF n = 0 THEN 0
    ELSE ((x % 2) * (y % 2)) + 2 * BitAnd(x \div 2, y \div 2, n - 1)

RECURSIVE BitXor(_, _, _)
BitXor(x, y, n) ==
    IF n = 0 THEN 0
    ELSE (((x % 2) + (y % 2)) % 2) + 2 * BitXor(x \div 2, y \div 2, n - 1)

\* ------------------------------------------------------- type descriptors
\* The runtime keeps one descriptor per type.  Types are numbered
\* 1..NumTypes; names vary fastest, then the flag bits, then the base kind.
NumTypes == KindUnsafePointer * 4 * NamesPerKind

Types == 1..NumTypes

BaseKindOf(ti) == ((ti - 1) \div (4 * NamesPerKind)) + KindBool

FlagBitsOf(ti) ==
    LET f == ((ti - 1) \div NamesPerKind) % 4
    IN  (f % 2) * KindDirectIface + (f \div 2) * KindGCProg

\* Address of the descriptor of type ti: descriptors live after the payloads.
TypeAddr(ti) == IF ti = 0 THEN 0 ELSE NumData + ti

\* The TypeInternal record stored at a descriptor address (kind field only).
TypeMem(addr) == [kind |-> BaseKindOf(addr - NumData) + FlagBitsOf(addr - NumData)]

DataAddrs == 1..NumData

\* Payload bytes stored at a data address.
PayloadAt(d) == IF d \in DataAddrs THEN <<d % (MaxByte + 1), (d + 1) % (MaxByte + 1)>> ELSE <<>>

\* ------------------------------------------------------------ AnyInternal
NilAny == [Type |-> 0, Data |-> 0]

\* Conversion of a typed value (type ti stored at address d) to 'any'.
Box(ti, d) == [Type |-> TypeAddr(ti), Data |-> d]

GetTypePointerReadsData(t) == t.Data

GetTypePointer(t) == t.Type

Panic == -1

GetKindNoMask(t) ==
    IF t.Type = 0 THEN Panic ELSE TypeMem(t.Type).kind

GetKind(t) ==
    IF t.Type = 0 THEN Panic
    ELSE BitAnd(TypeMem(t.Type).kind, KindMask, KindBits)

\* Spoof called with the caller's variables x and y of h: the arguments are
\* copied into the callee's frame, the copy t1 gets t2's type pointer and is
\* returned into the caller's "ret".
SpoofKeepsOwnType(h, x, y) ==
    LET frame0 == [t1 |-> h[x], t2 |-> h[y]]
        frame1 == [frame0 EXCEPT !.t1.Type = GetTypePointer(frame0.t1)]
    IN  [h EXCEPT !["ret"] = frame1.t1]

SpoofInPlace(h, x, y) ==
    LET forged == [h[x] EXCEPT !.Type = GetTypePointer(h[y])]
    IN  [h EXCEPT ![x] = forged, !["ret"] = forged]

SpoofReadsDataWord(h, x, y) ==
    LET frame0 == [t1 |-> h[x], t2 |-> h[y]]
        frame1 == [frame0 EXCEPT !.t1.Type = frame0.t2.Data]
    IN  [h EXCEPT !["ret"] = frame1.t1]

Spoof(h, x, y) ==
    LET frame0 == [t1 |-> h[x], t2 |-> h[y]]
        frame1 == [frame0 EXCEPT !.t1.Type = GetTypePointer(frame0.t2)]
    IN  [h EXCEPT !["ret"] = frame1.t1]

InventChecksNil(data, typePointer) ==
    IF data = 0 \/ typePointer = 0 THEN NilAny
    ELSE [Type |-> typePointer, Data |-> data]

Invent(data, typePointer) ==
    LET value == NilAny
        v1 == [value EXCEPT !.Data = data]
        v2 == [v1 EXCEPT !.Type = typePointer]
    IN  v2

NoEscapeXorOne(ptr) == BitXor(ptr, 1, PtrBits)

NoEscape(ptr) ==
    LET x == ptr
    IN  BitXor(x, 0, PtrBits)

\* ------------------------------------------- StringInternal, SliceInternal
NilSlice == [Data |-> 0, Len |-> 0, Cap |-> 0]

NilString == [Data |-> 0, Len |-> 0]

\* The words of a slice header in memory order.
SliceWords(s) == <<s.Data, s.Len, s.Cap>>

ByteStringUsesCap(s) ==
    LET w == SliceWords(s)
    IN  [Data |-> w[1], Len |-> w[3]]

ByteStringWrongWord(s) ==
    LET w == SliceWords(s)
    IN  [Data |-> w[2], Len |-> w[2]]

\* The slice header's storage read back as a string header: its first two
\* words.
ByteString(s) ==
    LET w == SliceWords(s)
    IN  [Data |-> w[1], Len |-> w[2]]

Bytes == 0..MaxByte

BufAddrs == 1..MaxBufs

Zeros(n) == [i \in 1..n |-> 0]

\* ------------------------------------------------------------------ state
VARIABLES
    hdr,      \* the caller's 'any' variables "a", "b" and "ret" (AnyInternal)
    decl,     \* declared type of the value boxed in "a" and "b" (0: nil)
    op,       \* last operation on dynamic values
    call,     \* arguments of that operation
    tp,       \* results of GetTypePointer on "a" and "b"
    kval,     \* the value GetKind is applied to
    kin,      \* declared type of kval (0: nil interface)
    kres,     \* result of GetKind
    kcalls,   \* number of GetKind calls on kval
    p,        \* argument of NoEscape
    q,        \* result of NoEscape
    ncalls,   \* whether NoEscape has been called
    mem,      \* byte buffers by address; <<>> while not allocated
    slice,    \* the caller's []byte variable (SliceInternal)
    str,      \* the string returned by ByteString (StringInternal)
    strValid, \* ByteString has been called
    nAtCall,  \* len(slice) at the time of that call
    origBuf,  \* slice's data pointer at the time of that call
    severed,  \* the slice has left that buffer since
    frozen,   \* the string's bytes at the moment it did
    last      \* last operation on the slice, with the index it wrote

dynVars == <<hdr, decl, op, call, tp>>
kindVars == <<kval, kin, kres, kcalls>>
wordVars == <<p, q, ncalls>>
byteVars == <<mem, slice, str, strValid, nAtCall, origBuf, severed, frozen, last>>
vars == <<hdr, decl, op, call, tp, kval, kin, kres, kcalls, p, q, ncalls,
          mem, slice, str, strValid, nAtCall, origBuf, severed, frozen, last>>

CallerVars == {"a", "b"}

NoCall == [x |-> "a", y |-> "a", argv |-> <<NilAny, NilAny>>, ptr |-> 0]

NoTp == [a |-> 0, b |-> 0]

NoWrite == [op |-> "none", idx |-> 0]

Init ==
    /\ hdr = [s \in {"a", "b", "ret"} |-> NilAny]
    /\ decl = [s \in CallerVars |-> 0]
    /\ op = "init"
    /\ call = NoCall
    /\ tp = NoTp
    /\ kval = NilAny
    /\ kin = 0
    /\ kres = 0
    /\ kcalls = 0
    /\ p = 0
    /\ q = 0
    /\ ncalls = 0
    /\ mem = [b \in BufAddrs |-> <<>>]
    /\ slice = NilSlice
    /\ str = NilString
    /\ strValid = FALSE
    /\ nAtCall = 0
    /\ origBuf = 0
    /\ severed = FALSE
    /\ frozen = <<>>
    /\ last = NoWrite

\* ------------------------------------------------- dynamic-value operations
\* The caller stores a typed value (or nil) in one of its 'any' variables.
BoxCall ==
    \E x \in CallerVars, ti \in 0..MaxDynTypes, d \in DataAddrs :
        /\ hdr' = [hdr EXCEPT ![x] = IF ti = 0 THEN NilAny ELSE Box(ti, d),
                              !["ret"] = NilAny]
        /\ decl' = [decl EXCEPT ![x] = ti]
        /\ op' = "Box"
        /\ call' = NoCall
        /\ tp' = NoTp
        /\ UNCHANGED <<kindVars, wordVars, byteVars>>

GetTypePointerCall ==
    /\ tp' = [a |-> GetTypePointer(hdr["a"]), b |-> GetTypePointer(hdr["b"])]
    /\ op' = "GetTypePointer"
    /\ call' = NoCall
    /\ UNCHANGED <<hdr, decl, kindVars, wordVars, byteVars>>

\* ret = Spoof(x, y) for two of the caller's variables.
SpoofCall ==
    \E x \in CallerVars, y \in CallerVars :
        /\ hdr' = Spoof(hdr, x, y)
        /\ op' = "Spoof"
        /\ call' = [x |-> x, y |-> y, argv |-> <<hdr[x], hdr[y]>>, ptr |-> 0]
        /\ tp' = NoTp
        /\ UNCHANGED <<decl, kindVars, wordVars, byteVars>>

\* ret = Spoof(ret, x) where ret came from Spoof(x, y).
SpoofBackCall ==
    /\ op = "Spoof"
    /\ hdr' = Spoof(hdr, "ret", call.x)
    /\ op' = "SpoofBack"
    /\ call' = [call EXCEPT !.argv = <<hdr["ret"], hdr[call.x]>>]
    /\ tp' = NoTp
    /\ UNCHANGED <<decl, kindVars, wordVars, byteVars>>

\* ret = Invent(ptr, GetTypePointer(x)); ptr may be nil, a payload address
\* or an address that holds no payload.
InventCall ==
    \E x \in CallerVars, ptr \in 0..(NumData + 1) :
        /\ hdr' = [hdr EXCEPT !["ret"] = Invent(ptr, GetTypePointer(hdr[x]))]
        /\ op' = "Invent"
        /\ call' = [x |-> x, y |-> x, argv |-> <<hdr[x], hdr[x]>>, ptr |-> ptr]
        /\ tp' = NoTp
        /\ UNCHANGED <<decl, kindVars, wordVars, byteVars>>

Next == BoxCall \/ GetTypePointerCall \/ SpoofCall \/ SpoofBackCall \/ InventCall

Spec == Init /\ [][Next]_vars

\* ------------------------------------------------------------------ GetKind
\* GetKind applied to a value of any type of the table, or to nil.
GetKindCall ==
    \E ti \in 0..NumTypes, d \in DataAddrs :
        /\ kval' = IF ti = 0 THEN NilAny ELSE Box(ti, d)
        /\ kin' = ti
        /\ kres' = GetKind(kval')
        /\ kcalls' = 1
        /\ UNCHANGED <<dynVars, wordVars, byteVars>>

\* GetKind applied once more to the same value.
GetKindAgain ==
    /\ kcalls >= 1
    /\ kcalls < MaxCalls
    /\ kres' = GetKind(kval)
    /\ kcalls' = kcalls + 1
    /\ UNCHANGED <<kval, kin, dynVars, wordVars, byteVars>>

NextKind == GetKindCall \/ GetKindAgain

SpecKind == Init /\ [][NextKind]_vars

\* ----------------------------------------------------------------- NoEscape
NoEscapeCall ==
    \E ptr \in 0..(2 ^ PtrBits - 1) :
        /\ p' = ptr
        /\ q' = NoEscape(ptr)
        /\ ncalls' = 1
        /\ UNCHANGED <<dynVars, kindVars, byteVars>>

NextWord == NoEscapeCall

SpecWord == Init /\ [][NextWord]_vars

\* --------------------------------------------------------------- ByteString
\* Bytes a string header denotes: Len bytes starting at Data.
StringBytes(m, s) ==
    IF s.Data \in BufAddrs /\ s.Len <= Len(m[s.Data])
    THEN SubSeq(m[s.Data], 1, s.Len)
    ELSE <<>>

\* Addresses the program still holds: the slice's buffer and the string's.
Roots(sl, st) == {sl.Data, st.Data} \ {0}

CollectIgnoresString(m, sl, st) ==
    [b \in BufAddrs |-> IF b = sl.Data THEN m[b] ELSE <<>>]

\* The garbage collector: a buffer no header points at is gone; a buffer the
\* string still points at persists.
Collect(m, sl, st) ==
    [b \in BufAddrs |-> IF b \in Roots(sl, st) THEN m[b] ELSE <<>>]

Free(m, sl, st) == {b \in BufAddrs : b \notin Roots(sl, st) /\ m[b] = <<>>}

\* The allocator hands out the lowest free address.
NewBuf(m, sl, st) == CHOOSE b \in Free(m, sl, st) : \A c \in Free(m, sl, st) : b <= c

\* The alias is cut when the slice header leaves the buffer the string was
\* taken from.
Sever(newSlice) ==
    IF strValid /\ ~severed /\ newSlice.Data # origBuf
    THEN /\ severed' = TRUE
         /\ frozen' = StringBytes(mem, str)
    ELSE UNCHANGED <<severed, frozen>>

\* slice = make([]byte, n, c): a fresh zeroed buffer; also the reassignment
\* of the slice variable to another buffer.
MakeSlice ==
    \E c \in 1..MaxCap, n \in 0..MaxCap :
        /\ n <= c
        /\ Free(mem, slice, str) # {}
        /\ LET b == NewBuf(mem, slice, str)
               ns == [Data |-> b, Len |-> n, Cap |-> c]
           IN  /\ slice' = ns
               /\ mem' = Collect([mem EXCEPT ![b] = Zeros(c)], ns, str)
               /\ Sever(ns)
        /\ last' = [op |-> "MakeSlice", idx |-> 0]
        /\ UNCHANGED <<str, strValid, nAtCall, origBuf, dynVars, kindVars, wordVars>>

\* slice[i] = v
WriteByte ==
    \E i \in 0..(MaxCap - 1), v \in Bytes :
        /\ i < slice.Len
        /\ mem' = [mem EXCEPT ![slice.Data][i + 1] = v]
        /\ last' = [op |-> "WriteByte", idx |-> i]
        /\ UNCHANGED <<slice, str, strValid, nAtCall, origBuf, severed, frozen,
                       dynVars, kindVars, wordVars>>

\* slice = append(slice, v) with room left: the byte lands in the buffer.
AppendInPlace ==
    \E v \in Bytes :
        /\ slice.Len < slice.Cap
        /\ mem' = [mem EXCEPT ![slice.Data][slice.Len + 1] = v]
        /\ slice' = [slice EXCEPT !.Len = slice.Len + 1]
        /\ last' = [op |-> "AppendInPlace", idx |-> slice.Len]
        /\ UNCHANGED <<str, strValid, nAtCall, origBuf, severed, frozen,
                       dynVars, kindVars, wordVars>>

\* slice = append(slice, v) beyond capacity: the content moves to a fresh,
\* larger buffer and the slice header points there.
AppendRealloc ==
    \E v \in Bytes, c \in 1..MaxCap :
        /\ slice.Len = slice.Cap
        /\ c > slice.Len
        /\ Free(mem, slice, str) # {}
        /\ LET b == NewBuf(mem, slice, str)
               ns == [Data |-> b, Len |-> slice.Len + 1, Cap |-> c]
               grown == [i \in 1..c |->
                            IF i <= slice.Len THEN mem[slice.Data][i]
                            ELSE IF i = slice.Len + 1 THEN v ELSE 0]
           IN  /\ slice' = ns
               /\ mem' = Collect([mem EXCEPT ![b] = grown], ns, str)
               /\ Sever(ns)
        /\ last' = [op |-> "AppendRealloc", idx |-> slice.Len]
        /\ UNCHANGED <<str, strValid, nAtCall, origBuf, dynVars, kindVars, wordVars>>

\* slice = slice[:k]
Reslice ==
    \E k \in 0..MaxCap :
        /\ k <= slice.Cap
        /\ k # slice.Len
        /\ slice' = [slice EXCEPT !.Len = k]
        /\ last' = [op |-> "Reslice", idx |-> 0]
        /\ UNCHANGED <<mem, str, strValid, nAtCall, origBuf, severed, frozen,
                       dynVars, kindVars, wordVars>>

\* str = ByteString(slice)
ByteStringCall ==
    /\ ~strValid
    /\ str' = ByteString(slice)
    /\ strValid' = TRUE
    /\ nAtCall' = slice.Len
    /\ origBuf' = slice.Data
    /\ last' = [op |-> "ByteString", idx |-> 0]
    /\ UNCHANGED <<mem, slice, severed, frozen, dynVars, kindVars, wordVars>>

NextBytes ==
    \/ MakeSlice
    \/ WriteByte
    \/ AppendInPlace
    \/ AppendRealloc
    \/ Reslice
    \/ ByteStringCall

SpecBytes == Init /\ [][NextBytes]_vars

\* ------------------------------------------------------------------ claims
\* C1: the value returned by Spoof(a, b) has b's type pointer (GetTypePointer
\* of the result equals GetTypePointer(b)) and a's original data pointer, so
\* the payload bytes read through it are a's bytes.
C1_SpoofForgesTypeKeepsPayload ==
    op = "Spoof" =>
        /\ GetTypePointer(hdr["ret"]) = GetTypePointer(call.argv[2])
        /\ hdr["ret"].Data = call.argv[1].Data
        /\ PayloadAt(hdr["ret"].Data) = PayloadAt(call.argv[1].Data)

C1_Witness ==
    /\ op = "Spoof"
    /\ call.argv[1].Type # 0
    /\ call.argv[2].Type # 0
    /\ call.argv[1].Type # call.argv[2].Type
    /\ call.argv[1].Data # call.argv[2].Data
    /\ hdr["ret"].Type = call.argv[2].Type
    /\ PayloadAt(hdr["ret"].Data) # PayloadAt(call.argv[2].Data)

\* C2: Invent(ptr, GetTypePointer(x)) returns a value whose type pointer is
\* x's type pointer and whose data pointer is exactly ptr, whatever ptr is
\* (nil and addresses holding no payload included).
C2_InventBuildsHeader ==
    op = "Invent" =>
        /\ GetTypePointer(hdr["ret"]) = GetTypePointer(call.argv[1])
        /\ hdr["ret"].Data = call.ptr

C2_Witness ==
    /\ op = "Invent"
    /\ call.ptr \notin DataAddrs
    /\ call.argv[1].Type # 0
    /\ hdr["ret"] = [Type |-> call.argv[1].Type, Data |-> call.ptr]

\* C5: GetTypePointer is a type identity: two values have the same type
\* pointer exactly when they have the same declared type, whatever their
\* payloads, and the pointer of a type is the fixed address of its descriptor.
C5_TypePointerIsIdentity ==
    op = "GetTypePointer" =>
        /\ (tp.a = tp.b) <=> (decl["a"] = decl["b"])
        /\ tp.a = TypeAddr(decl["a"])
        /\ tp.b = TypeAddr(decl["b"])

\* two distinct named types with the same kind byte, told apart
C5_Witness ==
    /\ op = "GetTypePointer"
    /\ decl["a"] # 0
    /\ decl["b"] # 0
    /\ decl["a"] # decl["b"]
    /\ TypeMem(hdr["a"].Type) = TypeMem(hdr["b"].Type)
    /\ hdr["a"].Data = hdr["b"].Data
    /\ tp.a # tp.b

\* C9: a call of Spoof leaves the caller's a and b as they were; only the
\* returned value carries the forged type.
C9_SpoofLeavesCallerValues ==
    [][op' \in {"Spoof", "SpoofBack"} =>
          /\ hdr'["a"] = hdr["a"]
          /\ hdr'["b"] = hdr["b"]]_vars

C9_Witness ==
    /\ op = "Spoof"
    /\ call.x # call.y
    /\ hdr[call.x] = call.argv[1]
    /\ hdr[call.y] = call.argv[2]
    /\ hdr["ret"].Type # hdr[call.x].Type
    /\ hdr["ret"].Type = hdr[call.y].Type

\* C10: Spoof(Spoof(a, b), a) has a's type pointer and data pointer, and
\* Spoof(a, a) equals a.
C10_SpoofBackRestores ==
    /\ op = "SpoofBack" => hdr["ret"] = hdr[call.x]
    /\ (op = "Spoof" /\ call.x = call.y) => hdr["ret"] = hdr[call.x]

C10_Witness ==
    /\ op = "SpoofBack"
    /\ hdr[call.x].Type # hdr[call.y].Type
    /\ call.argv[1].Type = hdr[call.y].Type
    /\ hdr[call.x].Data # 0
    /\ hdr["ret"] = hdr[call.x]

C7_NoEscapeIsIdentity ==
    ncalls = 1 => q = p

C7_Witness ==
    /\ ncalls = 1
    /\ p = 2 ^ PtrBits - 1
    /\ q = p

\* C3: while the slice has not left the buffer ByteString was called on, the
\* string has length n = len(slice) at call time and its byte i is the
\* current byte i of that buffer for every i < n; writes and appends at
\* indexes >= n do not show in it.
C3_StringMirrorsBuffer ==
    (strValid /\ ~severed) =>
        /\ str.Len = nAtCall
        /\ str.Data = origBuf
        /\ slice.Data = origBuf
        /\ Len(StringBytes(mem, str)) = nAtCall
        /\ \A i \in 1..nAtCall : StringBytes(mem, str)[i] = mem[origBuf][i]

\* a write made after the call, below n, read back through the string, with
\* the slice grown in place past n
C3_Witness ==
    /\ strValid
    /\ ~severed
    /\ last.op = "WriteByte"
    /\ last.idx < nAtCall
    /\ slice.Len > nAtCall
    /\ mem[slice.Data][nAtCall + 1] = 1
    /\ StringBytes(mem, str)[last.idx + 1] = 1

\* C4: once the slice has been reallocated or reassigned to another buffer,
\* the string keeps pointing at the old buffer and its content stays what it
\* was when the alias was cut, whatever is written through the slice.
C4_StringFrozenAfterSever ==
    (strValid /\ severed) =>
        /\ str.Data = origBuf
        /\ str.Len = nAtCall
        /\ slice.Data # origBuf
        /\ StringBytes(mem, str) = frozen
        /\ Len(frozen) = nAtCall

C4_Witness ==
    /\ strValid
    /\ severed
    /\ last.op = "WriteByte"
    /\ last.idx < nAtCall
    /\ mem[slice.Data][last.idx + 1] # frozen[last.idx + 1]
    /\ StringBytes(mem, str) = frozen
====
